---- MODULE Spec2Model ----
(***************************************************************************)
(* FitTrack API (src/main.py, src/schemas.py): request handlers over a     *)
(* MongoDB document store.                                                 *)
(*                                                                         *)
(* Conventions of the model                                                *)
(*  - An Optional value is a sequence of length <= 1: None is <<>>, a      *)
(*    present value v is <<v>>.                                            *)
(*  - A weight is a float in the source.  The model keeps weights that are *)
(*    multiples of 1/8 kg (exactly representable in binary floating point, *)
(*    so the float sum of reps*weight is exact) as the integer number of   *)
(*    eighths; a total_volume, which round(x, 2) produces, is kept as the  *)
(*    integer number of hundredths.                                        *)
(*  - An ObjectId is a natural number; the string that names it in a URL   *)
(*    is <<"hex", n>>, and <<"junk", n>> is a string that is no ObjectId.  *)
(*  - A timestamp is a natural number.                                     *)
(***************************************************************************)
EXTENDS Integers, Sequences, FiniteSets, TLC

\* ---------------------------------------------------------------- bounds
MaxWorkouts == 2
MaxFeedWorkouts == 3
MaxSystemWorkouts == 1
MaxSystemCalls == 1
MaxMetricsWorkouts == 1
MaxChallenges == 1
NumLikers == 2
NumCreators == 2
MaxExercises == 2
MaxSets == 2

\* ------------------------------------------------------ program constants
DefaultLimit == 20
DefaultRestSec == 90
RpeMin == 1
RpeMax == 10
FatigueMin == 1
FatigueMax == 10

\* ------------------------------------------------------------- Optional
None == <<>>
Some(v) == <<v>>
IsNone(o) == Len(o) = 0
Get(o) == o[1]
OrElse(o, d) == IF IsNone(o) THEN d ELSE o[1]

Abs(x) == IF x < 0 THEN -x ELSE x
Min2(a, b) == IF a < b THEN a ELSE b

RECURSIVE SumSeq(_)
SumSeq(s) == IF s = <<>> THEN 0 ELSE s[1] + SumSeq(Tail(s))

RECURSIVE Concat(_)
Concat(ss) == IF ss = <<>> THEN <<>> ELSE ss[1] \o Concat(Tail(ss))

\* ------------------------------------------------- schemas.py: validation
\* Field(..., ge=lo): required, >= lo.
RequiredGe(o, lo) == ~IsNone(o) /\ Get(o) >= lo
\* Optional[...] = Field(None, ge=lo): absent, or >= lo.
OptionalGe(o, lo) == IsNone(o) \/ Get(o) >= lo
\* Optional[...] = Field(None, ge=lo, le=hi)
OptionalRange(o, lo, hi) == IsNone(o) \/ (Get(o) >= lo /\ Get(o) <= hi)

ValidExerciseSetRepsGe0(s) ==
    /\ RequiredGe(s.reps, 0)
    /\ OptionalGe(s.weight, 0)
    /\ OptionalGe(s.rest_sec, 0)
    /\ OptionalRange(s.rpe, 8 * RpeMin, 8 * RpeMax)

\* class ExerciseSet
ValidExerciseSet(s) ==
    /\ RequiredGe(s.reps, 1)
    /\ OptionalGe(s.weight, 0)
    /\ OptionalGe(s.rest_sec, 0)
    /\ OptionalRange(s.rpe, 8 * RpeMin, 8 * RpeMax)

\* class WorkoutExercise
ValidWorkoutExercise(e) ==
    /\ ~IsNone(e.name)
    /\ \A i \in 1..Len(e.sets) : ValidExerciseSet(e.sets[i])

\* class Workout (CreateWorkoutRequest adds nothing)
ValidWorkout(w) ==
    /\ ~IsNone(w.user_id)
    /\ OptionalGe(w.duration_min, 0)
    /\ OptionalRange(w.fatigue, FatigueMin, FatigueMax)
    /\ \A i \in 1..Len(w.exercises) : ValidWorkoutExercise(w.exercises[i])
    /\ OptionalGe(w.total_volume, 0)
    /\ OptionalGe(w.total_sets, 0)
    /\ OptionalGe(w.total_reps, 0)
    /\ OptionalGe(w.likes, 0)

\* class Challenge
ValidChallenge(c) ==
    /\ ~IsNone(c.title)
    /\ ~IsNone(c.metric)
    /\ RequiredGe(c.target, 0)

\* The validated models: defaults filled in for the fields left out.
ParseExerciseSet(s) ==
    [reps |-> Get(s.reps),
     weight |-> OrElse(s.weight, 0),
     rest_sec |-> OrElse(s.rest_sec, DefaultRestSec),
     rpe |-> s.rpe]

ParseWorkoutExercise(e) ==
    [name |-> Get(e.name),
     sets |-> [i \in 1..Len(e.sets) |-> ParseExerciseSet(e.sets[i])]]

ParseWorkout(w) ==
    [user_id |-> Get(w.user_id),
     duration_min |-> w.duration_min,
     fatigue |-> w.fatigue,
     exercises |-> [i \in 1..Len(w.exercises) |-> ParseWorkoutExercise(w.exercises[i])],
     total_volume |-> w.total_volume,
     total_sets |-> w.total_sets,
     total_reps |-> w.total_reps,
     date |-> w.date,
     likes |-> w.likes]

ParseChallenge(c) ==
    [title |-> Get(c.title),
     metric |-> Get(c.metric),
     target |-> Get(c.target),
     period |-> OrElse(c.period, "monthly")]

\* User(username=..., full_name=..., city=...)
NewUser(payload) ==
    [username |-> payload.username,
     full_name |-> payload.full_name,
     city |-> payload.city,
     level |-> "beginner"]

\* ------------------------------------------- main.py: compute_workout_metrics
\* round(x, 2) of the float x = e/8: the nearest hundredth, a tie (e odd
\* makes 100*e/8 end in .5) going to the even hundredth.
Round2(e) ==
    LET q == (100 * e) \div 8
        r == (100 * e) % 8
    IN  IF r < 4 THEN q
        ELSE IF r > 4 THEN q + 1
        ELSE IF q % 2 = 0 THEN q ELSE q + 1

\* The inner loop over ex.sets, for one accumulator.
RECURSIVE SetsReps(_)
SetsReps(sets) == IF sets = <<>> THEN 0 ELSE sets[1].reps + SetsReps(Tail(sets))

RECURSIVE SetsVolume(_)
SetsVolume(sets) ==
    IF sets = <<>> THEN 0
    ELSE sets[1].reps * sets[1].weight + SetsVolume(Tail(sets))

\* The outer loop over workout.exercises.
RECURSIVE LoopSets(_)
LoopSets(exs) == IF exs = <<>> THEN 0 ELSE Len(exs[1].sets) + LoopSets(Tail(exs))

RECURSIVE LoopReps(_)
LoopReps(exs) == IF exs = <<>> THEN 0 ELSE SetsReps(exs[1].sets) + LoopReps(Tail(exs))

RECURSIVE LoopVolume(_)
LoopVolume(exs) == IF exs = <<>> THEN 0 ELSE SetsVolume(exs[1].sets) + LoopVolume(Tail(exs))

TotalSetsKeepingClient(workout) ==
    IF IsNone(workout.total_sets) THEN LoopSets(workout.exercises)
    ELSE Get(workout.total_sets)

TotalSets(workout) == LoopSets(workout.exercises)

TotalReps(workout) == LoopReps(workout.exercises)

TotalVolume(workout) == Round2(LoopVolume(workout.exercises))

compute_workout_metrics(workout, now) ==
    [workout EXCEPT
        !.total_volume = TotalVolume(workout),
        !.total_sets = TotalSets(workout),
        !.total_reps = TotalReps(workout),
        !.date = IF IsNone(workout.date) THEN now ELSE Get(workout.date),
        !.likes = IF IsNone(workout.likes) THEN 0 ELSE Get(workout.likes)]

\* ------------------------------------------------------------ identifiers
\* str(ObjectId): the 24 hexadecimal characters naming the ObjectId.
Str(oid) == <<"hex", oid>>
\* bson.ObjectId(s) and MongoDB's $toObjectId: the ObjectId a well-formed
\* string names; any other string is a conversion failure.
WellFormed(s) == s[1] = "hex"
ToObjectId(s) == s[2]

\* ------------------------------------------------------------------ state
VARIABLES
    db,          \* database.db: "None", or a pymongo Database
    user,        \* collection "user": documents in insertion order
    workout,     \* collection "workout"
    challenge,   \* collection "challenge"
    creators,    \* the create_user calls: position, payload, locals, outcome
    likers,      \* the like_workout calls: position, workout_id, locals, outcome
    resp,        \* the response the latest step sent, if it sent one
    inserted     \* history: each workout document as it was inserted

vars == <<db, user, workout, challenge, creators, likers, resp, inserted>>

\* database.db is None when the connection is not configured.  Otherwise it
\* is a pymongo Database, whose truth value depends on the installed PyMongo
\* (the source pins no version): up to 3.x a Database is an ordinary object
\* and bool(db) is True; from 4.0 on Database.__bool__ raises
\* NotImplementedError ("compare with None instead").
DbValues == {"None", "Database3", "Database4"}

\* `... if db else None` (main.py:55)
Truth(d) ==
    CASE d = "None" -> "False"
      [] d = "Database3" -> "True"
      [] d = "Database4" -> "raises"

\* `db is not None` (main.py:141)
IsNotNone(d) == d # "None"

NoRequest == [none |-> TRUE]
NoResp == [op |-> "none", req |-> NoRequest, status |-> 0, body |-> <<>>]
Response(op, req, status, body) == [op |-> op, req |-> req, status |-> status, body |-> body]

\* ---------------------------------------------------- the document store
\* insert_one: the store assigns a fresh _id and appends the document.
insert_one(coll, doc) == Append(coll, [_id |-> Len(coll) + 1] @@ doc)

\* get_documents(...)[i]["_id"] = str(...): the listed document.
Stringify(doc) == [doc EXCEPT !._id = Str(doc._id)]

\* find_one({"username": username})
find_one_username(coll, username) ==
    LET hits == {i \in 1..Len(coll) : coll[i].username = username}
    IN  IF hits = {} THEN None
        ELSE Some(coll[CHOOSE i \in hits : \A j \in hits : i <= j])

\* The positions of the documents whose _id is oid (at most one).
Matching(coll, oid) == {i \in 1..Len(coll) : coll[i]._id = oid}

IncTwice(doc) == [doc EXCEPT !.likes = @ + 2]

\* {"$inc": {"likes": 1}}
Inc(doc) == [doc EXCEPT !.likes = @ + 1]

UpdatedCollAnyId(coll, oid) == [i \in 1..Len(coll) |-> Inc(coll[i])]

\* find_one_and_update(filter on _id, {"$inc": {"likes": 1}}, return_document=True):
\* one atomic step of the store.  The collection afterwards ...
UpdatedColl(coll, oid) ==
    [i \in 1..Len(coll) |-> IF coll[i]._id = oid THEN Inc(coll[i]) ELSE coll[i]]
\* ... and the document returned: the updated one, or None without a match.
UpdatedDoc(coll, oid) ==
    IF Matching(coll, oid) = {} THEN None
    ELSE Some(Inc(coll[CHOOSE i \in Matching(coll, oid) : TRUE]))

LimitZeroEmpty(docs, n) == SubSeq(docs, 1, Min2(n, Len(docs)))

\* Cursor.limit(n): at most n documents; a limit of 0 is no limit.
Limit(docs, n) ==
    IF n = 0 THEN docs ELSE SubSeq(docs, 1, Min2(n, Len(docs)))

RECURSIVE SortAscending(_, _)
SortAscending(coll, idx) ==
    IF idx = {} THEN {<<>>}
    ELSE UNION {{<<i>> \o s : s \in SortAscending(coll, idx \ {i})} :
                  i \in {k \in idx : \A j \in idx : coll[k].date <= coll[j].date}}

\* Cursor.sort("date", -1): the orders of the documents at positions idx
\* with dates non-increasing; documents of equal date come in any order.
RECURSIVE SortDescending(_, _)
SortDescending(coll, idx) ==
    IF idx = {} THEN {<<>>}
    ELSE UNION {{<<i>> \o s : s \in SortDescending(coll, idx \ {i})} :
                  i \in {k \in idx : \A j \in idx : coll[k].date >= coll[j].date}}

\* `{"user_id": user} if user else {}`: the empty string is falsy.
HasQuery(u) == ~IsNone(u) /\ Get(u) # ""

\* find(query): the positions of the documents the query selects.
Find(coll, u) ==
    IF HasQuery(u) THEN {i \in 1..Len(coll) : coll[i].user_id = Get(u)}
    ELSE 1..Len(coll)

\* database.create_document: insert the model's fields as one document and
\* return the new identifier as a string.
create_document(coll, data) == insert_one(coll, data)
created_id(coll) == Str(Len(coll) + 1)

\* database.get_documents(name, {}, limit): up to limit documents in the
\* store's order.
get_documents(coll, limit) == SubSeq(coll, 1, Min2(limit, Len(coll)))

\* ------------------------------------------------------------- the calls
NoUserPayload == [username |-> "", full_name |-> None, city |-> None]
IdleCreator ==
    [pc |-> "idle", payload |-> NoUserPayload, status |-> 0,
     held |-> FALSE, after |-> {}]
IdleLiker ==
    [pc |-> "idle", workout_id |-> <<"junk", 0>>, updated |-> None, status |-> 0,
     existed |-> FALSE]

InitWith(nCreators, nLikers) ==
    /\ db \in DbValues
    /\ user = <<>>
    /\ workout = <<>>
    /\ challenge = <<>>
    /\ creators = [p \in 1..nCreators |-> IdleCreator]
    /\ likers = [p \in 1..nLikers |-> IdleLiker]
    /\ resp = NoResp
    /\ inserted = <<>>

Finished(rec, status) == [rec EXCEPT !.pc = "done", !.status = status]

\* ------------------------------------------------- POST /api/users
\* main.py:55-57: the existence read and the test of its result.
CreateUserFind(p, payloads) ==
    /\ creators[p].pc = "idle"
    /\ \E payload \in payloads :
        LET me == [creators[p] EXCEPT
                      !.payload = payload,
                      !.held = \E i \in 1..Len(user) : user[i].username = payload.username,
                      !.after = {q \in DOMAIN creators : creators[q].pc = "done"}]
            existing == IF Truth(db) = "True"
                        THEN find_one_username(user, payload.username)
                        ELSE None
        IN  IF Truth(db) = "raises"
            THEN /\ creators' = [creators EXCEPT ![p] = Finished(me, 500)]
                 /\ resp' = Response("create_user", payload, 500, <<>>)
            ELSE IF ~IsNone(existing)
            THEN /\ creators' = [creators EXCEPT ![p] = Finished(me, 400)]
                 /\ resp' = Response("create_user", payload, 400, <<>>)
            ELSE /\ creators' = [creators EXCEPT ![p] = [me EXCEPT !.pc = "insert"]]
                 /\ resp' = NoResp
    /\ UNCHANGED <<db, user, workout, challenge, likers, inserted>>

\* main.py:58-60: build the User, insert it, answer.
CreateUserInsert(p) ==
    /\ creators[p].pc = "insert"
    /\ IF IsNotNone(db)
       THEN /\ user' = create_document(user, NewUser(creators[p].payload))
            /\ creators' = [creators EXCEPT ![p] = Finished(@, 200)]
            /\ resp' = Response("create_user", creators[p].payload, 200,
                                [id |-> created_id(user),
                                 username |-> creators[p].payload.username])
       ELSE /\ user' = user
            /\ creators' = [creators EXCEPT ![p] = Finished(@, 500)]
            /\ resp' = Response("create_user", creators[p].payload, 500, <<>>)
    /\ UNCHANGED <<db, workout, challenge, likers, inserted>>

\* ------------------------------------------------- GET /api/users
list_users(limits) ==
    /\ \E limit \in limits :
        IF IsNotNone(db)
        THEN resp' = Response("list_users", [limit |-> limit], 200,
                        LET docs == get_documents(user, limit)
                        IN  [i \in 1..Len(docs) |-> Stringify(docs[i])])
        ELSE resp' = Response("list_users", [limit |-> limit], 500, <<>>)
    /\ UNCHANGED <<db, user, workout, challenge, creators, likers, inserted>>

\* ------------------------------------------------- POST /api/workouts
\* The framework validates the body against CreateWorkoutRequest before it
\* calls the handler; the handler computes the metrics and inserts.  cap
\* bounds the collection's growth in the model.
create_workout(payloads, clock, cap) ==
    /\ \E payload \in payloads, now \in clock :
        IF ~ValidWorkout(payload)
        THEN /\ resp' = Response("create_workout", payload, 422, <<>>)
             /\ UNCHANGED <<workout, inserted>>
        ELSE IF ~IsNotNone(db)
        THEN /\ resp' = Response("create_workout", payload, 500, <<>>)
             /\ UNCHANGED <<workout, inserted>>
        ELSE LET w == compute_workout_metrics(ParseWorkout(payload), now)
             IN  /\ Len(workout) < cap
                 /\ workout' = create_document(workout, w)
                 /\ inserted' = Append(inserted, workout'[Len(workout')])
                 /\ resp' = Response("create_workout", payload, 200,
                                     [id |-> created_id(workout),
                                      total_volume |-> w.total_volume])
    /\ UNCHANGED <<db, user, challenge, creators, likers>>

\* ------------------------------------------------- GET /api/workouts
get_feed(filters, limits) ==
    /\ \E u \in filters, limit \in limits :
        LET req == [user |-> u, limit |-> limit]
        IN  IF ~IsNotNone(db)
            THEN resp' = Response("get_feed", req, 500, <<>>)
            ELSE \E s \in SortDescending(workout, Find(workout, u)) :
                    resp' = Response("get_feed", req, 200,
                                Limit([i \in 1..Len(s) |-> Stringify(workout[s[i]])], limit))
    /\ UNCHANGED <<db, user, workout, challenge, creators, likers, inserted>>

\* ------------------------------------------------- POST /api/workouts/{id}/like
NotUpdatedAlways(updated) == TRUE

\* `if not updated`: None is falsy, a returned document is not.
NotUpdated(updated) == IsNone(updated)

LikeAnswer(p, me, updated) ==
    IF NotUpdated(updated)
    THEN /\ likers' = [likers EXCEPT ![p] = Finished(me, 404)]
         /\ resp' = Response("like_workout", me.workout_id, 404, <<>>)
    ELSE /\ likers' = [likers EXCEPT ![p] = Finished(me, 200)]
         /\ resp' = Response("like_workout", me.workout_id, 200, Stringify(Get(updated)))

LikeRaise(p, me) ==
    /\ likers' = [likers EXCEPT ![p] = Finished(me, 500)]
    /\ resp' = Response("like_workout", me.workout_id, 500, <<>>)
    /\ workout' = workout

\* main.py:93: the first find_one_and_update, whose filter converts the
\* path parameter with $toObjectId.  A string that is no ObjectId makes the
\* server fail the command (ConversionFailure), which pymongo raises as
\* OperationFailure outside any try block.  On an empty collection the
\* model also allows the command to match nothing instead.
LikeFirst(p, ids) ==
    /\ likers[p].pc = "idle"
    /\ \E wid \in ids :
        LET me == [likers[p] EXCEPT
                      !.workout_id = wid,
                      !.existed = WellFormed(wid)
                                  /\ Matching(workout, ToObjectId(wid)) # {}]
        IN  \/ /\ ~IsNotNone(db)
               /\ LikeRaise(p, me)
            \/ /\ IsNotNone(db)
               /\ ~WellFormed(wid)
               /\ LikeRaise(p, me)
            \/ /\ IsNotNone(db)
               /\ ~WellFormed(wid)
               /\ workout = <<>>
               /\ likers' = [likers EXCEPT ![p] = [me EXCEPT !.pc = "fallback"]]
               /\ resp' = NoResp
               /\ workout' = workout
            \/ /\ IsNotNone(db)
               /\ WellFormed(wid)
               /\ workout' = UpdatedColl(workout, ToObjectId(wid))
               /\ LET updated == UpdatedDoc(workout, ToObjectId(wid))
                  IN  IF NotUpdated(updated)
                      THEN /\ likers' = [likers EXCEPT ![p] =
                                            [me EXCEPT !.pc = "fallback", !.updated = updated]]
                           /\ resp' = NoResp
                      ELSE LikeAnswer(p, me, updated)
    /\ UNCHANGED <<db, user, challenge, creators, inserted>>

\* main.py:95-104: the fallback find_one_and_update on ObjectId(workout_id),
\* whose InvalidId is caught, and the answer.
LikeFallback(p) ==
    /\ likers[p].pc = "fallback"
    /\ LET me == likers[p]
           wid == me.workout_id
       IN  IF WellFormed(wid)
           THEN /\ workout' = UpdatedColl(workout, ToObjectId(wid))
                /\ LikeAnswer(p, [me EXCEPT !.updated = None],
                              UpdatedDoc(workout, ToObjectId(wid)))
           ELSE /\ workout' = workout
                /\ LikeAnswer(p, [me EXCEPT !.updated = None], me.updated)
    /\ UNCHANGED <<db, user, challenge, creators, inserted>>

\* ------------------------------------------------- POST /api/challenges
create_challenge(payloads, cap) ==
    /\ \E payload \in payloads :
        IF ~ValidChallenge(payload)
        THEN /\ resp' = Response("create_challenge", payload, 422, <<>>)
             /\ challenge' = challenge
        ELSE IF ~IsNotNone(db)
        THEN /\ resp' = Response("create_challenge", payload, 500, <<>>)
             /\ challenge' = challenge
        ELSE /\ Len(challenge) < cap
             /\ challenge' = create_document(challenge, ParseChallenge(payload))
             /\ resp' = Response("create_challenge", payload, 200,
                                 [id |-> created_id(challenge)])
    /\ UNCHANGED <<db, user, workout, creators, likers, inserted>>

\* ------------------------------------------------- GET /api/challenges
list_challenges(limits) ==
    /\ \E limit \in limits :
        IF IsNotNone(db)
        THEN resp' = Response("list_challenges", [limit |-> limit], 200,
                        LET docs == get_documents(challenge, limit)
                        IN  [i \in 1..Len(docs) |-> Stringify(docs[i])])
        ELSE resp' = Response("list_challenges", [limit |-> limit], 500, <<>>)
    /\ UNCHANGED <<db, user, workout, challenge, creators, likers, inserted>>

\* ------------------------------------------------- GET /, /schema, /test
root ==
    /\ resp' = Response("root", NoRequest, 200, [name |-> "FitTrack API", status |-> "ok"])
    /\ UNCHANGED <<db, user, workout, challenge, creators, likers, inserted>>

get_schema_overview ==
    /\ resp' = Response("get_schema_overview", NoRequest, 200,
                        <<"user", "workout", "challenge">>)
    /\ UNCHANGED <<db, user, workout, challenge, creators, likers, inserted>>

\* The probe reports the connection and never fails; the collections it
\* lists are the ones that hold a document.
test_database ==
    /\ resp' = Response("test_database", NoRequest, 200,
                        [connection_status |-> IF IsNotNone(db) THEN "Connected"
                                               ELSE "Not Connected",
                         collections |-> IF IsNotNone(db)
                                         THEN <<Len(user) > 0, Len(workout) > 0,
                                                Len(challenge) > 0>>
                                         ELSE <<FALSE, FALSE, FALSE>>])
    /\ UNCHANGED <<db, user, workout, challenge, creators, likers, inserted>>

\* ------------------------------------------------------------- the inputs
UserPayloads ==
    {[username |-> u, full_name |-> f, city |-> None] :
        u \in {"al", "bo"}, f \in {None, Some("Al")}}

OneUserPayload == {[username |-> "al", full_name |-> None, city |-> None]}

SetOf(reps, weight) ==
    [reps |-> reps, weight |-> weight, rest_sec |-> None, rpe |-> None]

ExerciseOf(sets) == [name |-> Some("Bench"), sets |-> sets]

WorkoutOf(user_id, exercises, totals, date, likes) ==
    [user_id |-> user_id, duration_min |-> None, fatigue |-> None,
     exercises |-> exercises,
     total_volume |-> totals, total_sets |-> totals, total_reps |-> totals,
     date |-> date, likes |-> likes]

\* 1 x 0.125 kg and 3 x 0.625 kg: sums of these are ties of round(x, 2).
SetInputs == {SetOf(Some(1), Some(1)), SetOf(Some(3), Some(5))}

\* 5 x 100 kg twice (the example of the specification), then 1 x 0.125 kg
\* in a second exercise.
MixedExercises ==
    <<ExerciseOf(<<SetOf(Some(5), Some(800)), SetOf(Some(5), Some(800))>>),
      ExerciseOf(<<SetOf(Some(1), Some(1))>>)>>

ExerciseLists ==
    {[i \in 1..n |-> ExerciseOf([j \in 1..k |-> s])] :
        n \in 0..MaxExercises, k \in 0..MaxSets, s \in SetInputs}
    \cup {MixedExercises}

\* One field out of its range, or missing, in an otherwise valid set.
BadSets ==
    {SetOf(None, Some(8)), SetOf(Some(0), Some(8)), SetOf(Some(2), Some(-1)),
     [SetOf(Some(2), Some(8)) EXCEPT !.rest_sec = Some(-1)],
     [SetOf(Some(2), Some(8)) EXCEPT !.rpe = Some(8 * RpeMin - 1)],
     [SetOf(Some(2), Some(8)) EXCEPT !.rpe = Some(8 * RpeMax + 1)]}

\* Fields at the edge of their range.
EdgeSets ==
    {[SetOf(Some(1), Some(0)) EXCEPT !.rest_sec = Some(0)],
     SetOf(Some(5), None),
     [SetOf(Some(2), Some(8)) EXCEPT !.rpe = Some(8 * RpeMin)],
     [SetOf(Some(2), Some(8)) EXCEPT !.rpe = Some(8 * RpeMax)]}

PlainWorkout == WorkoutOf(Some("al"), <<>>, None, None, None)

MetricsPayloads ==
    {WorkoutOf(Some("al"), exs, t, None, None) :
        exs \in ExerciseLists, t \in {None, Some(7)}}
    \cup {WorkoutOf(Some("al"), <<ExerciseOf(<<s>>)>>, None, None, None) :
            s \in BadSets \cup EdgeSets}
    \cup {WorkoutOf(Some("al"), <<[name |-> None, sets |-> <<>>]>>, None, None, None),
          WorkoutOf(None, <<>>, None, None, None),
          WorkoutOf(Some("al"), <<>>, Some(-1), None, None),
          WorkoutOf(Some("al"), <<>>, None, Some(2), Some(4)),
          WorkoutOf(Some("al"), <<>>, None, None, Some(-1))}
    \cup {[PlainWorkout EXCEPT !.duration_min = d] : d \in {Some(-1), Some(0)}}
    \cup {[PlainWorkout EXCEPT !.fatigue = f] :
            f \in {Some(FatigueMin - 1), Some(FatigueMin), Some(FatigueMax),
                   Some(FatigueMax + 1)}}

ChallengeOf(title, metric, target) ==
    [title |-> title, metric |-> metric, target |-> target, period |-> None]

ChallengePayloads ==
    {ChallengeOf(Some("Squat month"), Some("reps"), t) : t \in {None, Some(-1), Some(0)}}
    \cup {ChallengeOf(None, Some("reps"), Some(8)), ChallengeOf(Some("Squat month"), None, Some(8))}

OneChallengePayload ==
    {ChallengeOf(Some("Squat month"), Some("reps"), t) : t \in {Some(-1), Some(8)}}

LikePayloads ==
    {WorkoutOf(Some("al"), <<>>, None, None, l) : l \in {None, Some(3)}}

\* Three dates for one athlete, a tie with the athlete whose user_id is the
\* empty string, and a third athlete.
FeedPayloads ==
    {WorkoutOf(Some("al"), <<>>, None, Some(t), None) : t \in {1, 2, 3}}
    \cup {WorkoutOf(Some(""), <<>>, None, Some(2), None),
          WorkoutOf(Some("bo"), <<>>, None, Some(3), None)}

SmallPayloads ==
    {WorkoutOf(Some("al"), MixedExercises, Some(7), Some(2), Some(3)),
     WorkoutOf(Some("al"), <<ExerciseOf(<<SetOf(Some(0), None)>>)>>, None, None, None)}

WorkoutIds(cap) == {Str(i) : i \in 1..(cap + 1)} \cup {<<"junk", 0>>}
Filters == {None, Some(""), Some("al"), Some("bo")}
Limits == {0, 1, 2, DefaultLimit}

\* ----------------------------------------------------- the specifications
Creators == DOMAIN creators
Likers == DOMAIN likers

\* Every handler.
Init == InitWith(MaxSystemCalls, MaxSystemCalls)
Next ==
    \/ \E p \in Creators : CreateUserFind(p, OneUserPayload)
    \/ \E p \in Creators : CreateUserInsert(p)
    \/ list_users({DefaultLimit})
    \/ create_workout(SmallPayloads, {1}, MaxSystemWorkouts)
    \/ get_feed({None}, {DefaultLimit})
    \/ \E p \in Likers : LikeFirst(p, WorkoutIds(MaxSystemWorkouts))
    \/ \E p \in Likers : LikeFallback(p)
    \/ create_challenge(OneChallengePayload, MaxChallenges)
    \/ list_challenges({DefaultLimit})
    \/ root
    \/ get_schema_overview
    \/ test_database
Spec == Init /\ [][Next]_vars

\* Concurrent create_user calls.
InitUsers == InitWith(NumCreators, 0)
NextUsers ==
    \/ \E p \in Creators : CreateUserFind(p, UserPayloads)
    \/ \E p \in Creators : CreateUserInsert(p)
    \/ list_users(Limits)
SpecUsers == InitUsers /\ [][NextUsers]_vars

\* Concurrent like_workout calls.
InitLikes == InitWith(0, NumLikers)
NextLikes ==
    \/ create_workout(LikePayloads, {1}, MaxWorkouts)
    \/ \E p \in Likers : LikeFirst(p, WorkoutIds(MaxWorkouts))
    \/ \E p \in Likers : LikeFallback(p)
SpecLikes == InitLikes /\ [][NextLikes]_vars

\* The feed.
InitFeed == InitWith(0, 0)
NextFeed ==
    \/ create_workout(FeedPayloads, {1}, MaxFeedWorkouts)
    \/ get_feed(Filters, Limits)
SpecFeed == InitFeed /\ [][NextFeed]_vars

\* Validation and the derived metrics.
InitMetrics == InitWith(0, 0)
NextMetrics ==
    \/ create_workout(MetricsPayloads, {1}, MaxMetricsWorkouts)
    \/ create_challenge(ChallengePayloads, MaxChallenges)
    \/ list_challenges({DefaultLimit})
SpecMetrics == InitMetrics /\ [][NextMetrics]_vars

\* ------------------------------------------------------------ the claims
Connected == db # "None"
Done(calls, p) == calls[p].pc = "done"

\* The like_workout calls that answered 200 for the workout at position i.
Liked(i) ==
    {p \in Likers : likers[p].status = 200 /\ likers[p].workout_id = Str(workout[i]._id)}

\* C1: every stored workout's likes is its value when inserted plus the
\* number of like calls on it that succeeded (none lost, none applied
\* twice), and every completed like call on a workout that was stored when
\* the call began succeeded; so N concurrent calls that all complete add N.
C1_LikesCountEveryCallOnce ==
    /\ \A i \in 1..Len(workout) :
        workout[i].likes = inserted[i].likes + Cardinality(Liked(i))
    /\ \A p \in Likers :
        (Done(likers, p) /\ likers[p].existed) => likers[p].status = 200

C1_Witness ==
    \E i \in 1..Len(workout) :
        /\ Cardinality(Liked(i)) >= 2
        /\ \A p \in Liked(i) : likers[p].existed
        /\ workout[i].likes = inserted[i].likes + Cardinality(Liked(i))

\* C2 (as claimed): no two stored users have the same username.
C2_UsernamesUnique ==
    \A i, j \in 1..Len(user) : i # j => user[i].username # user[j].username

\* C3 (as claimed): of two create_user calls with the same username, the
\* second begun after the first completed, against a connected store that
\* did not hold the username, the first answers 200, the second answers 400,
\* and exactly one user with that username is stored.
C3_SequentialDuplicateRejected ==
    \A p, q \in Creators :
        ( /\ p # q
          /\ Done(creators, p) /\ Done(creators, q)
          /\ p \in creators[q].after
          /\ creators[p].payload.username = creators[q].payload.username
          /\ ~creators[p].held
          /\ Connected )
        => /\ creators[p].status = 200
           /\ creators[q].status = 400
           /\ Cardinality({i \in 1..Len(user) :
                             user[i].username = creators[p].payload.username}) = 1

\* All the sets of a stored workout, exercise after exercise.
AllSets(doc) == Concat([i \in 1..Len(doc.exercises) |-> doc.exercises[i].sets])
RepsOf(sets) == SumSeq([j \in 1..Len(sets) |-> sets[j].reps])
VolumeOf(sets) == SumSeq([j \in 1..Len(sets) |-> sets[j].reps * sets[j].weight])

\* C4: every stored workout has total_sets = the number of its sets,
\* total_reps = the sum of their reps and total_volume = the sum of
\* reps*weight at the nearest hundredth (all 0 without sets), whatever
\* totals the client sent; a successful create_workout stored the payload's
\* exercises and returned the stored total_volume.
C4_TotalsRecomputed ==
    /\ \A i \in 1..Len(workout) :
        LET sets == AllSets(workout[i])
        IN  /\ workout[i].total_sets = Len(sets)
            /\ workout[i].total_reps = RepsOf(sets)
            /\ Abs(8 * workout[i].total_volume - 100 * VolumeOf(sets)) <= 4
            /\ sets = <<>> => /\ workout[i].total_sets = 0
                              /\ workout[i].total_reps = 0
                              /\ workout[i].total_volume = 0
    /\ (resp.op = "create_workout" /\ resp.status = 200) =>
        LET doc == workout[Len(workout)]
        IN  /\ resp.body.id = Str(doc._id)
            /\ resp.body.total_volume = doc.total_volume
            /\ Len(doc.exercises) = Len(resp.req.exercises)
            /\ \A i \in 1..Len(doc.exercises) :
                 /\ Len(doc.exercises[i].sets) = Len(resp.req.exercises[i].sets)
                 /\ \A j \in 1..Len(doc.exercises[i].sets) :
                      /\ doc.exercises[i].sets[j].reps = Get(resp.req.exercises[i].sets[j].reps)
                      /\ doc.exercises[i].sets[j].weight =
                           OrElse(resp.req.exercises[i].sets[j].weight, 0)

C4_Witness ==
    /\ resp.op = "create_workout" /\ resp.status = 200
    /\ resp.req.total_sets = Some(7) /\ resp.req.total_volume = Some(7)
    /\ workout[Len(workout)].total_sets = 3
    /\ workout[Len(workout)].total_reps = 11
    /\ workout[Len(workout)].total_volume = 100012

\* A step of a like call whose identifier is well-formed and names no
\* stored workout.
LikeStepMissing(p) ==
    /\ likers'[p] # likers[p]
    /\ Connected
    /\ WellFormed(likers'[p].workout_id)
    /\ Matching(workout, ToObjectId(likers'[p].workout_id)) = {}

\* C5: a like call on a connected store whose well-formed identifier names
\* no stored workout changes nothing in any collection, at the first
\* attempt and at the fallback, and it completes only with 404.
C5_LikeMissingLeavesStorage ==
    [][\A p \in Likers :
          LikeStepMissing(p) =>
            /\ UNCHANGED <<user, workout, challenge>>
            /\ Done(likers', p) => likers'[p].status = 404]_vars

C5_Witness ==
    \E p \in Likers :
        /\ Done(likers, p) /\ likers[p].status = 404
        /\ WellFormed(likers[p].workout_id)
        /\ Matching(workout, ToObjectId(likers[p].workout_id)) = {}
        /\ Len(workout) > 0
        /\ \A i \in 1..Len(workout) : workout[i] = inserted[i]

\* C6 (as claimed): a like call with a malformed identifier on a connected
\* store completes with 404 and nothing else.
C6_MalformedIdIsNotFound ==
    \A p \in Likers :
        (Done(likers, p) /\ Connected /\ ~WellFormed(likers[p].workout_id))
        => likers[p].status = 404

\* The feed a request asks for: the workouts whose user_id is the filter,
\* all of them without a filter.
Wanted(u) ==
    IF IsNone(u) THEN 1..Len(workout)
    ELSE {i \in 1..Len(workout) : workout[i].user_id = Get(u)}

\* body lists distinct workouts among those at positions idx, as stored,
\* newest first, and no workout left out is newer than one listed.
LatestOf(body, idx) ==
    /\ \A k \in 1..Len(body) :
        \E i \in idx : body[k] = Stringify(workout[i])
    /\ \A k, l \in 1..Len(body) : k # l => body[k]._id # body[l]._id
    /\ \A k, l \in 1..Len(body) : k < l => body[k].date >= body[l].date
    /\ \A k \in 1..Len(body) : \A i \in idx :
        (\A l \in 1..Len(body) : body[l]._id # Str(workout[i]._id))
        => body[k].date >= workout[i].date

\* C7 (as claimed): a successful get_feed with filter u (or none) and limit
\* L >= 1 returns the min(L, m) latest of the m workouts with user_id = u
\* (all workouts without a filter), newest first.
C7_FeedLatestFirst ==
    (resp.op = "get_feed" /\ resp.status = 200 /\ resp.req.limit >= 1) =>
        /\ Len(resp.body) = Min2(resp.req.limit, Cardinality(Wanted(resp.req.user)))
        /\ LatestOf(resp.body, Wanted(resp.req.user))

\* The documents the handler's query selects: an absent filter and the
\* empty string both select every workout.
Selected(u) ==
    IF u \in {None, Some("")} THEN 1..Len(workout) ELSE Wanted(u)

\* C7 (amended): a successful get_feed with limit L >= 1 returns the
\* min(L, m) latest of the m workouts selected, newest first: those with
\* user_id = u for a non-empty filter u, all workouts for no filter and for
\* the empty string.
C7_FeedLatestFirstOfSelected ==
    (resp.op = "get_feed" /\ resp.status = 200 /\ resp.req.limit >= 1) =>
        /\ Len(resp.body) = Min2(resp.req.limit, Cardinality(Selected(resp.req.user)))
        /\ LatestOf(resp.body, Selected(resp.req.user))

C7_Witness ==
    /\ resp.op = "get_feed" /\ resp.status = 200
    /\ resp.req = [user |-> Some("al"), limit |-> 2]
    /\ Len(workout) = 3
    /\ Cardinality(Wanted(Some("al"))) = 3
    /\ workout[1].date < workout[2].date /\ workout[2].date < workout[3].date
    /\ resp.body = <<Stringify(workout[3]), Stringify(workout[2])>>

\* The constraints C8 lists, read off a payload.
SetViolates(s) ==
    \/ IsNone(s.reps) \/ Get(s.reps) < 1
    \/ (~IsNone(s.weight) /\ Get(s.weight) < 0)
    \/ (~IsNone(s.rest_sec) /\ Get(s.rest_sec) < 0)
    \/ (~IsNone(s.rpe) /\ (Get(s.rpe) < 8 \/ Get(s.rpe) > 80))
WorkoutViolates(w) ==
    \/ IsNone(w.user_id)
    \/ (~IsNone(w.duration_min) /\ Get(w.duration_min) < 0)
    \/ (~IsNone(w.fatigue) /\ (Get(w.fatigue) < 1 \/ Get(w.fatigue) > 10))
    \/ \E i \in 1..Len(w.exercises) :
         \/ IsNone(w.exercises[i].name)
         \/ \E j \in 1..Len(w.exercises[i].sets) : SetViolates(w.exercises[i].sets[j])
ChallengeViolates(c) ==
    \/ IsNone(c.title) \/ IsNone(c.metric)
    \/ IsNone(c.target) \/ Get(c.target) < 0

\* C8: a create_workout or create_challenge whose payload violates a field
\* constraint is answered 422 and changes no collection.
C8_InvalidPayloadRejected ==
    [][( \/ resp'.op = "create_workout" /\ WorkoutViolates(resp'.req)
         \/ resp'.op = "create_challenge" /\ ChallengeViolates(resp'.req) )
       => /\ resp'.status = 422
          /\ UNCHANGED <<user, workout, challenge>>]_vars

C8_Witness ==
    /\ resp.op = "create_workout" /\ resp.status = 422
    /\ WorkoutViolates(resp.req)
    /\ Len(workout) > 0
    /\ Len(challenge) > 0

\* C9 (as claimed): a successful get_feed with limit=0 returns an empty list.
C9_LimitZeroEmpty ==
    (resp.op = "get_feed" /\ resp.status = 200 /\ resp.req.limit = 0) =>
        resp.body = <<>>

\* C9 (amended): a successful get_feed with limit=0 returns every workout
\* the query selects (those with user_id = u for a non-empty filter u, all
\* workouts otherwise), newest first.
C9_LimitZeroUnlimited ==
    (resp.op = "get_feed" /\ resp.status = 200 /\ resp.req.limit = 0) =>
        /\ Len(resp.body) = Cardinality(Selected(resp.req.user))
        /\ LatestOf(resp.body, Selected(resp.req.user))

C9_Witness ==
    /\ resp.op = "get_feed" /\ resp.status = 200 /\ resp.req.limit = 0
    /\ resp.req.user = Some("al")
    /\ Len(resp.body) = 2
    /\ Len(workout) = 3

\* What a step may do to a collection that only grows.
GrowsByAtMostOne(old, new) ==
    /\ Len(new) \in {Len(old), Len(old) + 1}
    /\ \A i \in 1..Len(old) : new[i] = old[i]
ReadOps ==
    {"list_users", "get_feed", "list_challenges", "root", "get_schema_overview",
     "test_database"}

====
